---- MODULE Spec2Model ----
(***************************************************************************)
(* A model of push_notifications/apns_async.py: the payload builder        *)
(* (_create_notification_request_from_args, Alert.asDict), the client      *)
(* construction (_create_client) and the two public calls,                 *)
(* apns_send_message and apns_send_bulk_message, run by one caller who      *)
(* makes call after call, passing the same Alert object, against a          *)
(* provider whose answer to each send is not determined, and a device       *)
(* registry (models.APNSDevice) that outlives the calls.                    *)
(*                                                                          *)
(* Left at their defaults in every call: extra, expiration, priority,       *)
(* collapse_id, creds, err_func, application_id.                            *)
(***************************************************************************)
EXTENDS Integers, Sequences, FiniteSets, TLC

\* The longest list of registration ids a bulk call is given.
MaxBatch == 3
\* The same, where the payloads are looked at.
MaxPayloadBatch == 2

(***************************************************************************)
(* Python values: None, the NotSet sentinel, str, int, dict (a set of      *)
(* <<key, value>> pairs with one pair per key).                            *)
(***************************************************************************)
None == [t |-> "None", s |-> "", n |-> 0, d |-> {}]
NotSet == [t |-> "NotSet", s |-> "", n |-> 0, d |-> {}]
PyStr(x) == [t |-> "str", s |-> x, n |-> 0, d |-> {}]
PyInt(x) == [t |-> "int", s |-> "", n |-> x, d |-> {}]
PyDict(x) == [t |-> "dict", s |-> "", n |-> 0, d |-> x]
\* The caller's Alert object, passed by reference.
AlertRef == [t |-> "Alert", s |-> "", n |-> 0, d |-> {}]

Keys(d) == {p[1] : p \in d}
Get(d, k) == (CHOOSE p \in d : p[1] = k)[2]
\* {**d, **e}: the keys of e override those of d.
Merge(d, e) == {p \in d : p[1] \notin Keys(e)} \cup e
Range(s) == {s[k] : k \in 1..Len(s)}

\* if x: (None and the empty string are false)
Truthy(x) == x # None /\ x # PyStr("")

(***************************************************************************)
(* The Alert dataclass: every field defaults to NotSet.                    *)
(***************************************************************************)
AlertFields ==
    {"title", "subtitle", "body", "launch_image", "title_loc_key",
     "title_loc_args", "subtitle_loc_key", "subtitle_loc_args", "loc_key",
     "loc_args", "sound"}

Alert == [f \in AlertFields |-> NotSet]

\* key.replace("_", "-") on the field names of Alert
replace_underscore ==
    [title |-> "title", subtitle |-> "subtitle", body |-> "body",
     launch_image |-> "launch-image", title_loc_key |-> "title-loc-key",
     title_loc_args |-> "title-loc-args",
     subtitle_loc_key |-> "subtitle-loc-key",
     subtitle_loc_args |-> "subtitle-loc-args", loc_key |-> "loc-key",
     loc_args |-> "loc-args", sound |-> "sound"]

asDict(self) ==
    {<<replace_underscore[key], self[key]>> : key \in {f \in AlertFields : self[f] # NotSet}}

(***************************************************************************)
(* The inputs of the calls.                                                *)
(***************************************************************************)
Tokens == {"t1", "t2"}
\* The fields the caller may set on the Alert object it passes.
CallerFields == {"title", "body", "loc_key", "launch_image"}
CallerAlerts ==
    {[f \in AlertFields |-> IF f \in S THEN PyStr(f) ELSE NotSet] : S \in SUBSET CallerFields}
AlertArgs == {None, PyStr("Hello"), AlertRef}
TopicArgs == {None, PyStr("caller.topic")}
BadgeArgs == {None, PyInt(3)}
SoundArgs == {None, PyStr("default")}
ThreadArgs == {None, PyStr("thread")}
LocKeyArgs == {None, PyStr("LK")}
ContentAvailableArgs == {PyInt(0), PyInt(1)}
RegistrationIds(max) == UNION {[1..k -> Tokens] : k \in 0..max}

(***************************************************************************)
(* What client.send_notification does: it returns a NotificationResult     *)
(* (status, description) or raises ConnectionError.                        *)
(***************************************************************************)
NotificationResult(status, description) ==
    [raised |-> FALSE, status |-> status, description |-> description]
ConnectionError == [raised |-> TRUE, status |-> "", description |-> ""]
Outcomes ==
    {NotificationResult("200", ""),
     NotificationResult("410", "Unregistered"),
     NotificationResult("400", "BadDeviceToken"),
     NotificationResult("500", "InternalServerError"),
     ConnectionError}
is_successful(res) == res.status = "200"

\* get_manager().get_apns_topic(application_id)
get_apns_topic == PyStr("configured.topic")

VARIABLES
    callerSet,          \* the fields of the Alert object as the caller set them
    alertObj,           \* the fields of the caller's Alert object now
    active,             \* models.APNSDevice: registration id -> active
    pc,                 \* "idle", "loop" (inside the bulk loop), "returned", "raised"
    api,                \* the call under way or ended: "none", "single", "bulk"
    args,               \* the arguments of that call
    client,             \* apns_service.client: the topic it was created with
    request,            \* the NotificationRequest built last
    results,            \* bulk: results, a dict registration id -> description
    inactive_tokens,    \* bulk: inactive_tokens, a list
    idx,                \* bulk: the entries of registration_ids gone through
    exc,                \* the exception the call raised
    sent,               \* the sends attempted in the call, with the outcome of each
    updates,            \* per registration id, the registry updates applied to it in the call
    updatedAfter,       \* the number of sends attempted when the registry was updated, or -1
    active0             \* the registry as the call found it

vars ==
    <<callerSet, alertObj, active, pc, api, args, client, request, results,
      inactive_tokens, idx, exc, sent, updates, updatedAfter, active0>>

NoArgs ==
    [registration_id |-> "", registration_ids |-> <<>>, alert |-> None,
     topic |-> None, badge |-> None, sound |-> None, thread_id |-> None,
     loc_key |-> None, content_available |-> PyInt(0)]
NoClient == [created |-> FALSE, topic |-> None]
NoRequest ==
    [built |-> FALSE, device_token |-> "", push_type |-> "", aps |-> {}]
NoExc == [type |-> "", status |-> ""]

InitWith(alerts) ==
    /\ callerSet \in alerts
    /\ alertObj = callerSet
    /\ active = [t \in Tokens |-> TRUE]
    /\ pc = "idle"
    /\ api = "none"
    /\ args = NoArgs
    /\ client = NoClient
    /\ request = NoRequest
    /\ results = {}
    /\ inactive_tokens = <<>>
    /\ idx = 0
    /\ exc = NoExc
    /\ sent = <<>>
    /\ updates = [t \in Tokens |-> 0]
    /\ updatedAfter = -1
    /\ active0 = active

\* The caller's Alert object has a title and a body.
Init == InitWith({[Alert EXCEPT !["title"] = PyStr("title"), !["body"] = PyStr("body")]})
\* The caller's Alert object has any of CallerFields set.
InitPayload == InitWith(CallerAlerts)

(***************************************************************************)
(* APNsService._create_notification_request_from_args. The local alert is  *)
(* a str, an Alert made here ("fresh") or the caller's Alert object        *)
(* ("caller"), whose fields are obj. Gives the request and the fields of   *)
(* the caller's object afterwards.                                         *)
(***************************************************************************)
Local(kind, fields, val) == [kind |-> kind, fields |-> fields, val |-> val]

create_notification_request_from_args(registration_id, alert, badge, sound, thread_id, loc_key, aps_kwargs, obj) ==
    LET push_type == IF alert = None THEN "background" ELSE "alert"
        a0 == IF alert = None
                  THEN Local("fresh", [Alert EXCEPT !["body"] = PyStr("")], None)
              ELSE IF alert = AlertRef
                  THEN Local("caller", obj, None)
              ELSE Local("str", Alert, alert)
        a1 == IF Truthy(loc_key) /\ a0.kind = "str"
                  THEN Local("fresh", [Alert EXCEPT !["body"] = a0.val], None)
              ELSE a0
        a2 == IF Truthy(loc_key)
                  THEN Local(a1.kind, [a1.fields EXCEPT !["loc_key"] = loc_key], None)
              ELSE a1
        out == IF a2.kind = "str" THEN a2.val ELSE PyDict(asDict(a2.fields))
        aps == Merge({<<"alert", out>>, <<"badge", badge>>, <<"sound", sound>>,
                      <<"thread-id", thread_id>>}, aps_kwargs)
    IN  [request |-> [built |-> TRUE, device_token |-> registration_id,
                      push_type |-> push_type, aps |-> aps],
         obj |-> IF a2.kind = "caller" THEN a2.fields ELSE obj]

\* APNsService._create_client: the configured topic is used when none is given.
create_client(topic) ==
    [created |-> TRUE, topic |-> IF topic = None THEN get_apns_topic ELSE topic]

\* As IsUnregistered, with "BadDeviceToken" taken for an unregistered token too.
IsUnregisteredOrBad(res) ==
    ~is_successful(res) /\ res.description \in {"Unregistered", "BadDeviceToken"}

\* not res.is_successful and res.description == "Unregistered"
IsUnregistered(res) == ~is_successful(res) /\ res.description = "Unregistered"

\* models.APNSDevice.objects.filter(registration_id__in=S).update(active=False)
update_inactive(reg, S) == [t \in Tokens |-> reg[t] /\ t \notin S]
count_update(upd, S) == [t \in Tokens |-> IF t \in S THEN upd[t] + 1 ELSE upd[t]]

APNSServerError(status) == [type |-> "APNSServerError", status |-> status]
\* What the set-up of the client raises when the credentials do not resolve.
SetupError == [type |-> "ImproperlyConfigured", status |-> ""]

\* One send: the entry of the list it is for (1 in apns_send_message), the
\* registration id and what send_notification did.
Attempt(entry, registration_id, res) ==
    [entry |-> entry, token |-> registration_id, res |-> res]

(***************************************************************************)
(* apns_send_message, from the call to its return or raise. setup: the     *)
(* client could be created; res: what send_notification does.              *)
(***************************************************************************)
apns_send_message(registration_id, alert, topic, badge, sound, thread_id, loc_key, setup, res) ==
    LET b == create_notification_request_from_args(
                 registration_id, alert, badge, sound, thread_id, loc_key, {}, alertObj)
        answered == setup /\ ~res.raised
        unregistered == answered /\ IsUnregistered(res)
        raised == IF ~setup THEN SetupError
                  ELSE IF res.raised THEN APNSServerError("ConnectionError")
                  ELSE IF ~is_successful(res) THEN APNSServerError(res.description)
                  ELSE NoExc
    IN  /\ pc = "idle"
        /\ api' = "single"
        /\ args' = [NoArgs EXCEPT !.registration_id = registration_id,
                        !.alert = alert, !.topic = topic, !.badge = badge,
                        !.sound = sound, !.thread_id = thread_id,
                        !.loc_key = loc_key]
        /\ active0' = active
        /\ client' = IF setup THEN create_client(topic) ELSE NoClient
        /\ request' = IF setup THEN b.request ELSE NoRequest
        /\ alertObj' = IF setup THEN b.obj ELSE alertObj
        /\ sent' = IF setup THEN <<Attempt(1, registration_id, res)>> ELSE <<>>
        /\ active' = IF unregistered THEN update_inactive(active, {registration_id}) ELSE active
        /\ updates' = IF unregistered
                          THEN count_update([t \in Tokens |-> 0], {registration_id})
                      ELSE [t \in Tokens |-> 0]
        /\ updatedAfter' = IF unregistered THEN 1 ELSE -1
        /\ exc' = raised
        /\ pc' = IF raised = NoExc THEN "returned" ELSE "raised"
        /\ results' = {}
        /\ inactive_tokens' = <<>>
        /\ idx' = 0
        /\ UNCHANGED callerSet

(***************************************************************************)
(* apns_send_bulk_message up to its loop: the topic, the empty results and *)
(* the client.                                                             *)
(***************************************************************************)
apns_send_bulk_message(registration_ids, alert, content_available, topic, badge, sound, thread_id, loc_key, setup) ==
    LET topic1 == get_apns_topic
    IN  /\ pc = "idle"
        /\ api' = "bulk"
        /\ args' = [NoArgs EXCEPT !.registration_ids = registration_ids,
                        !.alert = alert, !.topic = topic, !.badge = badge,
                        !.sound = sound, !.thread_id = thread_id,
                        !.loc_key = loc_key,
                        !.content_available = content_available]
        /\ active0' = active
        /\ results' = {}
        /\ inactive_tokens' = <<>>
        /\ client' = IF setup THEN create_client(topic1) ELSE NoClient
        /\ exc' = IF setup THEN NoExc ELSE SetupError
        /\ pc' = IF setup THEN "loop" ELSE "raised"
        /\ idx' = 0
        /\ sent' = <<>>
        /\ updates' = [t \in Tokens |-> 0]
        /\ updatedAfter' = -1
        /\ request' = NoRequest
        /\ UNCHANGED <<callerSet, alertObj, active>>

(***************************************************************************)
(* As bulk_send, with a send the provider answers "InternalServerError"    *)
(* made again for the same entry of the list.                              *)
(***************************************************************************)
bulk_send_retrying(res) ==
    LET registration_id == args.registration_ids[idx + 1]
        b == create_notification_request_from_args(
                 registration_id, args.alert, args.badge, args.sound,
                 args.thread_id, args.loc_key,
                 {<<"content-available", args.content_available>>}, alertObj)
        description == IF is_successful(res) THEN "Success" ELSE res.description
        again == ~res.raised /\ description = "InternalServerError"
    IN  /\ pc = "loop"
        /\ idx < Len(args.registration_ids)
        /\ request' = b.request
        /\ alertObj' = b.obj
        /\ sent' = Append(sent, Attempt(idx + 1, registration_id, res))
        /\ IF res.raised
              THEN /\ pc' = "raised"
                   /\ exc' = [type |-> "ConnectionError", status |-> ""]
                   /\ UNCHANGED <<results, inactive_tokens, idx>>
              ELSE /\ results' = IF again THEN results
                                 ELSE Merge(results, {<<registration_id, description>>})
                   /\ inactive_tokens' =
                          IF IsUnregistered(res)
                              THEN Append(inactive_tokens, registration_id)
                          ELSE inactive_tokens
                   /\ idx' = IF again THEN idx ELSE idx + 1
                   /\ UNCHANGED <<pc, exc>>
        /\ UNCHANGED <<callerSet, active, api, args, client, updates, updatedAfter, active0>>

(***************************************************************************)
(* One pass of the loop of apns_send_bulk_message: the request is built    *)
(* and sent, and the result recorded; a ConnectionError leaves the         *)
(* function.                                                               *)
(***************************************************************************)
bulk_send(res) ==
    LET registration_id == args.registration_ids[idx + 1]
        b == create_notification_request_from_args(
                 registration_id, args.alert, args.badge, args.sound,
                 args.thread_id, args.loc_key,
                 {<<"content-available", args.content_available>>}, alertObj)
        description == IF is_successful(res) THEN "Success" ELSE res.description
    IN  /\ pc = "loop"
        /\ idx < Len(args.registration_ids)
        /\ request' = b.request
        /\ alertObj' = b.obj
        /\ sent' = Append(sent, Attempt(idx + 1, registration_id, res))
        /\ IF res.raised
              THEN /\ pc' = "raised"
                   /\ exc' = [type |-> "ConnectionError", status |-> ""]
                   /\ UNCHANGED <<results, inactive_tokens, idx>>
              ELSE /\ results' = Merge(results, {<<registration_id, description>>})
                   /\ inactive_tokens' =
                          IF IsUnregistered(res)
                              THEN Append(inactive_tokens, registration_id)
                          ELSE inactive_tokens
                   /\ idx' = idx + 1
                   /\ UNCHANGED <<pc, exc>>
        /\ UNCHANGED <<callerSet, active, api, args, client, updates, updatedAfter, active0>>

(***************************************************************************)
(* After the loop of apns_send_bulk_message: the registry update and the   *)
(* return of results.                                                      *)
(***************************************************************************)
bulk_return ==
    /\ pc = "loop"
    /\ idx = Len(args.registration_ids)
    /\ IF Len(inactive_tokens) > 0
          THEN /\ active' = update_inactive(active, Range(inactive_tokens))
               /\ updates' = count_update(updates, Range(inactive_tokens))
               /\ updatedAfter' = Len(sent)
          ELSE UNCHANGED <<active, updates, updatedAfter>>
    /\ pc' = "returned"
    /\ UNCHANGED <<callerSet, alertObj, api, args, client, request, results,
                   inactive_tokens, idx, exc, sent, active0>>

(***************************************************************************)
(* The caller has the result or the exception of the call, and goes on to  *)
(* its next call; the registry and its Alert object stay as they are.      *)
(***************************************************************************)
call_ended ==
    /\ pc \in {"returned", "raised"}
    /\ pc' = "idle"
    /\ api' = "none"
    /\ args' = NoArgs
    /\ client' = NoClient
    /\ request' = NoRequest
    /\ results' = {}
    /\ inactive_tokens' = <<>>
    /\ idx' = 0
    /\ exc' = NoExc
    /\ sent' = <<>>
    /\ updates' = [t \in Tokens |-> 0]
    /\ updatedAfter' = -1
    /\ active0' = active
    /\ UNCHANGED <<callerSet, alertObj, active>>

(***************************************************************************)
(* The deliveries: every outcome of every send, every topic, lists of up   *)
(* to MaxBatch registration ids; badge, sound, thread_id and loc_key are    *)
(* not given.                                                              *)
(***************************************************************************)
Next ==
    \/ \E registration_id \in Tokens, alert \in AlertArgs, topic \in TopicArgs,
          setup \in BOOLEAN, res \in Outcomes :
           apns_send_message(registration_id, alert, topic, None, None, None,
                             None, setup, res)
    \/ \E registration_ids \in RegistrationIds(MaxBatch), alert \in AlertArgs,
          topic \in TopicArgs, setup \in BOOLEAN :
           apns_send_bulk_message(registration_ids, alert, PyInt(0), topic,
                                  None, None, None, None, setup)
    \/ \E res \in Outcomes : bulk_send(res)
    \/ bulk_return
    \/ call_ended

Spec == Init /\ [][Next]_vars

(***************************************************************************)
(* The payloads: every alert, every subset of badge, sound, thread_id and  *)
(* loc_key, sent to a provider that accepts every send.                    *)
(***************************************************************************)
NextPayload ==
    \/ \E registration_id \in Tokens, alert \in AlertArgs, badge \in BadgeArgs,
          sound \in SoundArgs, thread_id \in ThreadArgs, loc_key \in LocKeyArgs :
           apns_send_message(registration_id, alert, None, badge, sound,
                             thread_id, loc_key, TRUE, NotificationResult("200", ""))
    \/ \E registration_ids \in RegistrationIds(MaxPayloadBatch), alert \in AlertArgs,
          content_available \in ContentAvailableArgs, badge \in BadgeArgs,
          sound \in SoundArgs, thread_id \in ThreadArgs, loc_key \in LocKeyArgs :
           apns_send_bulk_message(registration_ids, alert, content_available,
                                  None, badge, sound, thread_id, loc_key, TRUE)
    \/ bulk_send(NotificationResult("200", ""))
    \/ bulk_return
    \/ call_ended

SpecPayload == InitPayload /\ [][NextPayload]_vars

(***************************************************************************)
(* What the claims speak of.                                               *)
(***************************************************************************)
Ended == pc \in {"returned", "raised"}
Attempts == 1..Len(sent)
\* The provider answered a send to t with this reason.
Answered(t, reason) ==
    \E k \in Attempts :
        /\ sent[k].token = t
        /\ ~sent[k].res.raised
        /\ sent[k].res.status # "200"
        /\ sent[k].res.description = reason
\* The last send to the token of send k is send k.
LastFor(k) == \A j \in Attempts : sent[j].token = sent[k].token => j <= k
NoUpdates == [t \in Tokens |-> 0]

(***************************************************************************)
(* C1: when a call of apns_send_bulk_message in which the provider         *)
(* answered some sends "Unregistered" has ended, the registry update has   *)
(* been applied exactly once to each distinct unregistered token and to no *)
(* other, and it was applied after the last send of the list.              *)
(***************************************************************************)
C1_DeactivatedOncePerTokenAtEnd ==
    (api = "bulk" /\ Ended /\ \E t \in Tokens : Answered(t, "Unregistered")) =>
        /\ \A t \in Tokens :
               updates[t] = IF Answered(t, "Unregistered") THEN 1 ELSE 0
        /\ updatedAfter = Len(args.registration_ids)

(***************************************************************************)
(* C2: once apns_send_bulk_message has attempted a send it does not raise; *)
(* it returns a mapping with an entry for every token of the list:         *)
(* "Success" when the provider accepted the send, the failure description  *)
(* otherwise.                                                              *)
(***************************************************************************)
C2_BulkReturnsMappingAfterFirstSend ==
    (api = "bulk" /\ Len(sent) >= 1) =>
        /\ pc # "raised"
        /\ pc = "returned" =>
               /\ Keys(results) = Range(args.registration_ids)
               /\ \A k \in Attempts :
                      LastFor(k) =>
                          Get(results, sent[k].token) =
                              IF sent[k].res.status = "200" THEN "Success"
                              ELSE sent[k].res.description

(***************************************************************************)
(* C3: apns_send_message, once its one send has been attempted: a          *)
(* successful result returns and leaves the registry as it was; a result   *)
(* that is not successful raises APNSServerError with the provider's       *)
(* reason, the registry update having been applied, once and to that token *)
(* only, exactly when the reason is "Unregistered"; a ConnectionError      *)
(* raises APNSServerError and leaves the registry as it was.               *)
(***************************************************************************)
C3_SingleSendOutcome ==
    (api = "single" /\ Ended /\ Len(sent) = 1) =>
        LET res == sent[1].res
            t == args.registration_id
        IN  IF res.raised
                THEN /\ pc = "raised"
                     /\ exc.type = "APNSServerError"
                     /\ active = active0
                     /\ updates = NoUpdates
            ELSE IF res.status = "200"
                THEN /\ pc = "returned"
                     /\ exc = NoExc
                     /\ active = active0
                     /\ updates = NoUpdates
            ELSE /\ pc = "raised"
                 /\ exc = [type |-> "APNSServerError", status |-> res.description]
                 /\ IF res.description = "Unregistered"
                        THEN /\ updates = [NoUpdates EXCEPT ![t] = 1]
                             /\ active = [active0 EXCEPT ![t] = FALSE]
                    ELSE /\ updates = NoUpdates
                         /\ active = active0

\* C3's case: a device that was active, answered "Unregistered", is
\* deactivated by the one update and the call has raised.
C3_Witness ==
    /\ api = "single"
    /\ pc = "raised"
    /\ Len(sent) = 1
    /\ Answered(args.registration_id, "Unregistered")
    /\ active0[args.registration_id]
    /\ ~active[args.registration_id]
    /\ updates[args.registration_id] = 1

(***************************************************************************)
(* C4: a request built with alert = None has push type "background" and    *)
(* no alert key in its aps object.                                         *)
(***************************************************************************)
C4_SilentHasNoAlertKey ==
    (request.built /\ args.alert = None) =>
        /\ request.push_type = "background"
        /\ "alert" \notin Keys(request.aps)

(***************************************************************************)
(* C5: the built payload holds badge, sound, thread-id exactly when the    *)
(* caller gave them, the alert object exactly the sub-fields that were     *)
(* set, and no key with a null value.                                      *)
(***************************************************************************)
C5_OnlySetFieldsEmitted ==
    request.built =>
        /\ "badge" \in Keys(request.aps) <=> args.badge # None
        /\ "sound" \in Keys(request.aps) <=> args.sound # None
        /\ "thread-id" \in Keys(request.aps) <=> args.thread_id # None
        /\ \A p \in request.aps : p[2] # None
        /\ \A p \in request.aps :
               p[2].t = "dict" => \A q \in p[2].d : q[2] \notin {None, NotSet}
        /\ (args.alert = AlertRef /\ args.loc_key = None /\ alertObj = callerSet) =>
               \E p \in request.aps :
                   /\ p[1] = "alert"
                   /\ Keys(p[2].d) =
                          {replace_underscore[f] : f \in {g \in AlertFields : callerSet[g] # NotSet}}

(***************************************************************************)
(* C6: a token the provider answered "BadDeviceToken" has been reported    *)
(* once to the registry for deactivation when the call has ended, in       *)
(* apns_send_message and in apns_send_bulk_message.                        *)
(***************************************************************************)
C6_BadDeviceTokenDeactivated ==
    Ended =>
        \A t \in Tokens : Answered(t, "BadDeviceToken") => updates[t] = 1

C8_UnregisteredDeactivatedHoweverEnded ==
    (api = "bulk" /\ Ended) =>
        \A t \in Tokens : Answered(t, "Unregistered") => ~active[t]

(***************************************************************************)
(* C9: the client is created with the caller's topic when the caller gave  *)
(* one, and with the configured topic only when the caller gave none.      *)
(***************************************************************************)
C9_CallerTopicUsed ==
    client.created =>
        client.topic = IF args.topic # None THEN args.topic ELSE get_apns_topic

(***************************************************************************)
(* C10: the caller's Alert object keeps the fields the caller set, and the *)
(* alert of a request built from it without a loc_key argument is the      *)
(* caller's fields.                                                        *)
(***************************************************************************)
C10_CallerAlertUnchanged ==
    /\ alertObj = callerSet
    /\ (request.built /\ args.alert = AlertRef /\ args.loc_key = None) =>
           <<"alert", PyDict(asDict(callerSet))>> \in request.aps

====
